---- MODULE Spec2Model ----
(***************************************************************************)
(* Model of the crypto dashboard (src/app.py): the number formatter, the   *)
(* three cached client operations (get_coins_list, get_coin_history,       *)
(* get_global_data) and the render pass of main().                         *)
(*                                                                         *)
(* Python values are tagged records: None, list, dict, frame.  A JSON      *)
(* object is a dict whose payload d is a TLA+ record, so that a key test   *)
(* is k \in DOMAIN d.  Time is in seconds.  A render pass is one run of    *)
(* main(); the clock advances between passes (a pass is short against the  *)
(* time-to-live of a cache entry).                                         *)
(***************************************************************************)
EXTENDS Integers, Sequences, FiniteSets, TLC

\* ---------------------------------------------------------------- bounds
\* the clock stops at MaxTime, and advances in steps of TickStep seconds
MaxTime == 800
TickStep == 250
\* at most MaxRequests network requests are issued in a behaviour
MaxRequests == 3

\* ------------------------------------------------------- program constants
TTL_COINS == 600
TTL_HISTORY == 300
TTL_GLOBAL == 300
BILLION == 1000000000
MILLION == 1000000
HTTP_OK == 200

\* ---------------------------------------------------------- Python values
NoneV == [kind |-> "None"]
PyList(items) == [kind |-> "list", items |-> items]
PyDict(d) == [kind |-> "dict", d |-> d]
\* a response body that response.json() cannot parse
Garbled == [kind |-> "garbled"]

\* len(x) for a list or a dict
PyLen(v) == IF v.kind = "list" THEN Len(v.items) ELSE Cardinality(DOMAIN v.d)

\* truth value of x in "if x:"
Truthy(v) ==
  CASE v.kind = "None" -> FALSE
    [] v.kind = "list" -> Len(v.items) > 0
    [] v.kind = "dict" -> DOMAIN v.d # {}
    [] OTHER -> TRUE

\* ------------------------------------------------------- number formatter
\* The formatted text is a record: the currency prefix, the number shown in
\* hundredths (":.2f" rounds to 2 decimals), whether thousands separators
\* are used (":,") and the unit suffix.  "N/A" is its own text.
Hundredths(value, divisor) == (value + (divisor \div 200)) \div (divisor \div 100)

format_big_number_strict(number) ==
  IF number.kind = "None"
    THEN [text |-> "N/A", hundredths |-> 0, grouped |-> FALSE, unit |-> ""]
    ELSE LET value == number.n IN
      IF value > BILLION
        THEN [text |-> "€", hundredths |-> Hundredths(value, BILLION),
              grouped |-> FALSE, unit |-> "Mrd."]
      ELSE IF value > MILLION
        THEN [text |-> "€", hundredths |-> Hundredths(value, MILLION),
              grouped |-> FALSE, unit |-> "Mio."]
      ELSE [text |-> "€", hundredths |-> value * 100, grouped |-> TRUE, unit |-> ""]

format_big_number(number) ==
  IF number.kind = "None"
    THEN [text |-> "N/A", hundredths |-> 0, grouped |-> FALSE, unit |-> ""]
    ELSE LET value == number.n IN
      IF value >= BILLION
        THEN [text |-> "€", hundredths |-> Hundredths(value, BILLION),
              grouped |-> FALSE, unit |-> "Mrd."]
      ELSE IF value >= MILLION
        THEN [text |-> "€", hundredths |-> Hundredths(value, MILLION),
              grouped |-> FALSE, unit |-> "Mio."]
      ELSE [text |-> "€", hundredths |-> value * 100, grouped |-> TRUE, unit |-> ""]

PyNum(n) == [kind |-> "num", n |-> n]

\* f"{btc_percentage:.1f} %": the percentage, given in hundredths, in tenths
format_percentage(h) == [tenths |-> (h + 5) \div 10, unit |-> "%"]

\* --------------------------------------------------------- window mapping
days_int_of_swapped(days_option) ==
  IF days_option = "30 Days" THEN 30
  ELSE IF days_option = "90 Days" THEN 90
  ELSE 30

days_int_of(days_option) ==
  IF days_option = "30 Days" THEN 30
  ELSE IF days_option = "90 Days" THEN 90
  ELSE 7

RadioOptions == <<"7 Days", "30 Days", "90 Days">>

\* ------------------------------------------------------ upstream responses
\* What requests.get meets: a transport failure (it raises), or a response
\* with a status code and a body.
Response(transport, status_code, body) ==
  [transport |-> transport, status_code |-> status_code, body |-> body]
TransportFailure == Response("fail", 0, Garbled)
NoResponse == Response("none", 0, Garbled)
\* status codes other than 200
ErrorStatusCodes == {429}

\* /coins/markets
Btc == [id |-> "bitcoin", name |-> "Bitcoin", symbol |-> "btc"]
Gov == [id |-> "global-overview", name |-> "Global Overview", symbol |-> "gov"]
ErrorObject == PyDict([status |-> "rate limited"])
CoinsBodies ==
  {Garbled, ErrorObject, PyList(<<>>), PyList(<<Btc>>), PyList(<<Gov, Btc>>)}
CoinsResponses ==
  {TransportFailure}
    \cup {Response("ok", HTTP_OK, b) : b \in CoinsBodies}
    \cup {Response("ok", e, b) : e \in ErrorStatusCodes,
                                b \in {ErrorObject, PyList(<<Btc>>)}}

\* /coins/{id}/market_chart: rows are <<epoch milliseconds, value>>
Rows2 == << <<1000, 5>>, <<2500, 6>> >>
Rows1 == << <<1000, 5>> >>
RowsBackwards == << <<2500, 6>>, <<1000, 5>> >>
RowsWide == << <<1000, 5, 9>> >>
Chart(p, c, v) == PyDict([prices |-> p, market_caps |-> c, total_volumes |-> v])
HistoryBodies ==
  {Garbled, ErrorObject,
   Chart(Rows2, Rows2, Rows2),
   Chart(<<>>, <<>>, <<>>),
   Chart(Rows2, Rows1, Rows2),
   Chart(RowsBackwards, RowsBackwards, RowsBackwards),
   Chart(Rows2, Rows2, RowsWide),
   PyDict([prices |-> Rows2, market_caps |-> Rows2])}
HistoryResponses ==
  {TransportFailure}
    \cup {Response("ok", HTTP_OK, b) : b \in HistoryBodies}
    \cup {Response("ok", e, b) : e \in ErrorStatusCodes,
                                b \in {ErrorObject, Chart(Rows2, Rows2, Rows2)}}

\* /global: percentages are in hundredths of a percent
FullStats ==
  [total_market_cap |-> [eur |-> 2100000000],
   total_volume |-> [eur |-> 1200000],
   market_cap_percentage |-> [btc |-> 5234]]
PartialStats == [total_market_cap |-> [eur |-> 2100000000]]
GlobalBodies ==
  {Garbled, ErrorObject,
   PyDict([data |-> PyDict(<<>>)]),
   PyDict([data |-> PyDict(PartialStats)]),
   PyDict([data |-> PyDict(FullStats)])}
GlobalResponses ==
  {TransportFailure}
    \cup {Response("ok", HTTP_OK, b) : b \in GlobalBodies}
    \cup {Response("ok", e, b) : e \in ErrorStatusCodes,
                                b \in {ErrorObject, PyDict([data |-> PyDict(FullStats)])}}

\* ------------------------------------------------- the client operations
\* Each is the decorated function's body: the value it returns for what
\* requests.get met.  No path lets an exception out.
EmptyList == PyList(<<>>)

get_coins_list(resp) ==
  IF resp.transport = "fail" THEN EmptyList
  ELSE IF resp.status_code = HTTP_OK
    THEN (IF resp.body.kind = "garbled" THEN EmptyList ELSE resp.body)
  ELSE EmptyList

\* what get_coins_list hands to the presentation layer itself: st.error in
\* its except branch (the print of line 52 goes to the console)
get_coins_list_elements(resp) ==
  IF resp.transport = "fail" \/ (resp.status_code = HTTP_OK /\ resp.body.kind = "garbled")
    THEN <<"error.connecting_to_api">>
    ELSE <<>>

\* pd.to_datetime(ms, unit='ms')
to_datetime(ms) == [sec |-> ms \div 1000, msec |-> ms % 1000]

\* pd.DataFrame(rows, columns=['timestamp', column]) raises unless every row
\* has two cells
FrameOk(rows) == \A i \in 1..Len(rows) : Len(rows[i]) = 2

DataFrame(rows, column) ==
  [kind |-> "frame", column |-> column,
   rows |-> [i \in 1..Len(rows) |->
               [timestamp |-> to_datetime(rows[i][1]), value |-> rows[i][2]]]]

FailureSentinel == <<NoneV, NoneV, NoneV>>

\* each series guarded on its own
SeriesOrNone(data, key, column) ==
  IF key \in DOMAIN data /\ FrameOk(data[key])
    THEN DataFrame(data[key], column) ELSE NoneV

get_coin_history_per_series(resp) ==
  IF resp.transport = "fail" THEN FailureSentinel
  ELSE IF resp.body.kind # "dict" THEN FailureSentinel
  ELSE <<SeriesOrNone(resp.body.d, "prices", "price"),
         SeriesOrNone(resp.body.d, "market_caps", "market_cap"),
         SeriesOrNone(resp.body.d, "total_volumes", "volume")>>

get_coin_history(resp) ==
  IF resp.transport = "fail" THEN FailureSentinel
  ELSE IF resp.body.kind # "dict" THEN FailureSentinel
  ELSE LET data == resp.body.d IN
    IF ~({"prices", "market_caps", "total_volumes"} \subseteq DOMAIN data)
      THEN FailureSentinel
    ELSE IF ~(FrameOk(data.prices) /\ FrameOk(data.market_caps)
              /\ FrameOk(data.total_volumes))
      THEN FailureSentinel
    ELSE <<DataFrame(data.prices, "price"),
           DataFrame(data.market_caps, "market_cap"),
           DataFrame(data.total_volumes, "volume")>>

get_global_data(resp) ==
  IF resp.transport = "fail" THEN NoneV
  ELSE IF resp.status_code = HTTP_OK
    THEN (IF resp.body.kind # "dict" THEN NoneV
          ELSE IF "data" \notin DOMAIN resp.body.d THEN NoneV
          ELSE resp.body.d.data)
  ELSE NoneV

\* ---------------------------------------------------------- st.cache_data
\* One cache per decorated function, keyed by the arguments.  An entry holds
\* what the function returned, the elements it rendered (they are replayed
\* on a hit) and when; it is valid for ttl seconds.
NoEntry == [stored |-> FALSE, value |-> NoneV, elements |-> <<>>, at |-> 0]

CacheValidForever(entry, ttl, t) == entry.stored

CacheValidSkipFailures(entry, ttl, t) ==
  /\ entry.stored
  /\ t < entry.at + ttl
  /\ entry.value \notin {NoneV, PyList(<<>>), <<NoneV, NoneV, NoneV>>}

CacheValid(entry, ttl, t) == entry.stored /\ t < entry.at + ttl

\* A call of a decorated function at time t: the cached value while the
\* entry is valid, else the function body runs (fresh is what it returns) and
\* its return value is stored, whatever it is.
CachedCall(entry, ttl, t, fresh, elements) ==
  IF CacheValid(entry, ttl, t)
    THEN [entry |-> entry, result |-> entry.value, elements |-> entry.elements,
          fetched |-> FALSE]
    ELSE [entry |-> [stored |-> TRUE, value |-> fresh, elements |-> elements,
                     at |-> t],
          result |-> fresh, elements |-> elements, fetched |-> TRUE]

CoinIds == {Btc.id, Gov.id}
DayCounts == {7, 30, 90}
HistoryKeys == CoinIds \X DayCounts

\* ------------------------------------------------------------------ state
VARIABLES
  now,            \* the clock, in seconds
  nreq,           \* network requests issued so far
  cache_coins,    \* the cache entry of get_coins_list()
  cache_global,   \* the cache entry of get_global_data()
  cache_history,  \* the cache entries of get_coin_history, by (coin_id, days)
  pc,             \* where main() is: idle, loaded, selected, done, crashed
  coins_data,     \* main's coins_data
  selection,      \* main's selection
  days_option,    \* main's days_option
  days_int,       \* main's days_int
  calls,          \* the client calls of this pass, in order
  rendered,       \* the elements handed to the presentation layer, in order
  metric_values,  \* the texts of the global metrics of this pass
  number,         \* an argument of format_big_number
  formatted,      \* <<what format_big_number returned for it>>, once called
  label,          \* a window label
  mapped          \* <<the day count of the label>>, once mapped

vars == <<now, nreq, cache_coins, cache_global, cache_history, pc, coins_data,
          selection, days_option, days_int, calls, rendered, metric_values,
          number, formatted, label, mapped>>

passvars == <<now, nreq, cache_coins, cache_global, cache_history, pc, coins_data,
              selection, days_option, days_int, calls, rendered, metric_values>>
fnvars == <<number, formatted, label, mapped>>

GLOBAL_OVERVIEW == "Global Overview"

\* the record of one client call
Call(op, args, c, resp, before) ==
  [op |-> op, args |-> args, fetched |-> c.fetched,
   resp |-> IF c.fetched THEN resp ELSE NoResponse,
   result |-> c.result, at |-> now, before |-> before]

InitPass ==
  /\ now = 0
  /\ nreq = 0
  /\ cache_coins = NoEntry
  /\ cache_global = NoEntry
  /\ cache_history = [k \in HistoryKeys |-> NoEntry]
  /\ pc = "idle"
  /\ coins_data = EmptyList
  /\ selection = GLOBAL_OVERVIEW
  /\ days_option = RadioOptions[1]
  /\ days_int = 7
  /\ calls = <<>>
  /\ rendered = <<>>
  /\ metric_values = <<>>

Init ==
  /\ InitPass
  /\ number = NoneV
  /\ formatted = <<>>
  /\ label = RadioOptions[1]
  /\ mapped = <<>>

\* ------------------------------------------------------------ main()
Sidebar == <<"sidebar.title", "sidebar.info">>

\* lines 113-122: an empty coins_data warns and returns; else the names of
\* the dropdown are collected (coin['name'] on a key of a JSON object raises)
LoadOutcomeNoReturn(data) ==
  IF PyLen(data) = 0
    THEN [rendered |-> <<"warning.could_not_load_data">>, pc |-> "loaded"]
    ELSE [rendered |-> <<>>,
          pc |-> IF data.kind = "list" THEN "loaded" ELSE "crashed"]

LoadOutcome(data) ==
  IF PyLen(data) = 0
    THEN [rendered |-> <<"warning.could_not_load_data">>, pc |-> "done"]
    ELSE [rendered |-> <<>>,
          pc |-> IF data.kind = "list" THEN "loaded" ELSE "crashed"]

\* lines 105-122: the sidebar, the coin list, the names of the dropdown
LoadCoins ==
  /\ pc = "idle"
  /\ \E resp \in CoinsResponses :
       LET c == CachedCall(cache_coins, TTL_COINS, now, get_coins_list(resp),
                           get_coins_list_elements(resp)) IN
         /\ c.fetched => nreq < MaxRequests
         /\ nreq' = IF c.fetched THEN nreq + 1 ELSE nreq
         /\ cache_coins' = c.entry
         /\ calls' = <<Call("get_coins_list", <<>>, c, resp, cache_coins)>>
         /\ coins_data' = c.result
         /\ rendered' = Sidebar \o c.elements \o LoadOutcome(c.result).rendered
         /\ pc' = LoadOutcome(c.result).pc
  /\ UNCHANGED <<now, cache_global, cache_history, selection, days_option,
                 days_int, metric_values>>
  /\ UNCHANGED fnvars

coin_names(items) == <<GLOBAL_OVERVIEW>> \o [i \in 1..Len(items) |-> items[i].name]

\* lines 124-137: the two widgets and the window mapping
ReadWidgets ==
  /\ pc = "loaded"
  /\ \E i \in 1..(Len(coins_data.items) + 1), j \in 1..Len(RadioOptions) :
       /\ selection' = coin_names(coins_data.items)[i]
       /\ days_option' = RadioOptions[j]
       /\ days_int' = days_int_of(RadioOptions[j])
  /\ rendered' = rendered \o <<"sidebar.selectbox", "sidebar.radio">>
  /\ pc' = "selected"
  /\ UNCHANGED <<now, nreq, cache_coins, cache_global, cache_history,
                 coins_data, calls, metric_values>>
  /\ UNCHANGED fnvars

StatsKeys == {"total_market_cap", "total_volume", "market_cap_percentage"}

\* lines 140-170: the global view
GlobalView ==
  /\ pc = "selected"
  /\ selection = GLOBAL_OVERVIEW
  /\ \E resp \in GlobalResponses :
       LET c == CachedCall(cache_global, TTL_GLOBAL, now, get_global_data(resp), <<>>)
           global_stats == c.result
           head == rendered \o <<"title.global">>
           table == <<"divider", "subheader.top100", "dataframe.top100">>
       IN
         /\ c.fetched => nreq < MaxRequests
         /\ nreq' = IF c.fetched THEN nreq + 1 ELSE nreq
         /\ cache_global' = c.entry
         /\ calls' = Append(calls, Call("get_global_data", <<>>, c, resp, cache_global))
         /\ IF ~Truthy(global_stats)
              THEN /\ rendered' = head \o table
                   /\ metric_values' = <<>>
                   /\ pc' = "done"
            ELSE IF ~(StatsKeys \subseteq DOMAIN global_stats.d)
              \* global_stats[...] raises KeyError
              THEN /\ rendered' = head
                   /\ metric_values' = <<>>
                   /\ pc' = "crashed"
            ELSE /\ rendered' = head \o <<"metric.market_cap", "metric.volume",
                                          "metric.btc_dominance">> \o table
                 /\ metric_values' =
                      <<format_big_number(PyNum(global_stats.d.total_market_cap.eur)),
                        format_big_number(PyNum(global_stats.d.total_volume.eur)),
                        format_percentage(global_stats.d.market_cap_percentage.btc)>>
                 /\ pc' = "done"
  /\ UNCHANGED <<now, cache_coins, cache_history, coins_data, selection,
                 days_option, days_int>>
  /\ UNCHANGED fnvars

\* lines 174-178: the first coin with the selected name
FindCoin(items, name) ==
  LET hits == {i \in 1..Len(items) : items[i].name = name} IN
    IF hits = {} THEN [found |-> FALSE, coin |-> Btc]
    ELSE [found |-> TRUE,
          coin |-> items[CHOOSE i \in hits : \A j \in hits : i <= j]]

CoinHead == <<"title.coin", "image", "metric.price", "metric.change",
              "metric.high", "divider", "subheader.history">>
Charts == <<"tabs", "line_chart.price", "bar_chart.volume", "area_chart.market_cap">>

\* lines 172-214: the coin view
CoinDetail ==
  /\ pc = "selected"
  /\ selection # GLOBAL_OVERVIEW
  /\ LET selected_coin == FindCoin(coins_data.items, selection) IN
       IF ~selected_coin.found
         THEN /\ pc' = "done"
              /\ UNCHANGED <<nreq, cache_history, calls, rendered>>
         ELSE \E resp \in HistoryResponses :
           LET key == <<selected_coin.coin.id, days_int>>
               c == CachedCall(cache_history[key], TTL_HISTORY, now,
                               get_coin_history(resp), <<>>)
               df_price == c.result[1]
               df_cap == c.result[2]
               df_vol == c.result[3]
           IN
             /\ c.fetched => nreq < MaxRequests
             /\ nreq' = IF c.fetched THEN nreq + 1 ELSE nreq
             /\ cache_history' = [cache_history EXCEPT ![key] = c.entry]
             /\ calls' = Append(calls, Call("get_coin_history", key, c, resp,
                                            cache_history[key]))
             /\ IF df_price.kind = "None"
                  THEN /\ rendered' = rendered \o CoinHead
                                        \o <<"warning.could_not_load_chart_data">>
                       /\ pc' = "done"
                ELSE IF df_vol.kind = "None" \/ df_cap.kind = "None"
                  \* None['volume'] raises TypeError
                  THEN /\ rendered' = rendered \o CoinHead
                                        \o <<"tabs", "line_chart.price">>
                       /\ pc' = "crashed"
                ELSE /\ rendered' = rendered \o CoinHead \o Charts
                     /\ pc' = "done"
  /\ UNCHANGED <<now, cache_coins, cache_global, coins_data, selection,
                 days_option, days_int, metric_values>>
  /\ UNCHANGED fnvars

\* the next interaction reruns main()
Rerun ==
  /\ pc \in {"done", "crashed"}
  /\ pc' = "idle"
  /\ coins_data' = EmptyList
  /\ selection' = GLOBAL_OVERVIEW
  /\ days_option' = RadioOptions[1]
  /\ days_int' = 7
  /\ calls' = <<>>
  /\ rendered' = <<>>
  /\ metric_values' = <<>>
  /\ UNCHANGED <<now, nreq, cache_coins, cache_global, cache_history>>
  /\ UNCHANGED fnvars

\* time passes between two passes
Tick ==
  /\ pc = "idle"
  /\ now + TickStep <= MaxTime
  /\ now' = now + TickStep
  /\ UNCHANGED <<nreq, cache_coins, cache_global, cache_history, pc, coins_data,
                 selection, days_option, days_int, calls, rendered, metric_values>>
  /\ UNCHANGED fnvars

Next == LoadCoins \/ ReadWidgets \/ GlobalView \/ CoinDetail \/ Rerun \/ Tick

Spec == Init /\ [][Next]_vars

\* ------------------------------------------- the two functions on their own
\* format_big_number and the window mapping applied to arguments of every
\* kind, the ones main() never passes included.
Numbers == {-5, 0, 999, 999999, 1000000, 1200000, 999999999, 1000000000,
            2100000000}
FormatInputs == {NoneV} \cup {PyNum(n) : n \in Numbers}
Labels == {"7 Days", "30 Days", "90 Days", "1 Year", "30 days", ""}

InitFn ==
  /\ InitPass
  /\ number \in FormatInputs
  /\ formatted = <<>>
  /\ label \in Labels
  /\ mapped = <<>>

Format ==
  /\ formatted = <<>>
  /\ formatted' = <<format_big_number(number)>>
  /\ UNCHANGED <<number, label, mapped>>
  /\ UNCHANGED passvars

MapWindow ==
  /\ mapped = <<>>
  /\ mapped' = <<days_int_of(label)>>
  /\ UNCHANGED <<number, formatted, label>>
  /\ UNCHANGED passvars

NextFn == Format \/ MapWindow

SpecFn == InitFn /\ [][NextFn]_vars

\* ------------------------------------------------------------ properties
CallsOf(op) == {i \in 1..Len(calls) : calls[i].op = op}
PassOver == pc \in {"done", "crashed"}
Shown(tag) == \E i \in 1..Len(rendered) : rendered[i] = tag
Position(tag) == CHOOSE i \in 1..Len(rendered) : rendered[i] = tag

SentinelOf(op) ==
  CASE op = "get_coins_list" -> PyList(<<>>)
    [] op = "get_coin_history" -> <<NoneV, NoneV, NoneV>>
    [] op = "get_global_data" -> NoneV

\* the time-to-live the specification states for each operation
StatedTtl(op) == IF op = "get_coins_list" THEN 600 ELSE 300

\* the body has the shape the operation's endpoint documents
WellFormedBody(op, body) ==
  CASE op = "get_coins_list" -> body.kind = "list"
    [] op = "get_coin_history" ->
         /\ body.kind = "dict"
         /\ {"prices", "market_caps", "total_volumes"} \subseteq DOMAIN body.d
         /\ \A k \in {"prices", "market_caps", "total_volumes"} :
              \A i \in 1..Len(body.d[k]) : Len(body.d[k][i]) = 2
    [] op = "get_global_data" ->
         /\ body.kind = "dict"
         /\ "data" \in DOMAIN body.d
         /\ body.d.data.kind = "dict"
         /\ StatsKeys \subseteq DOMAIN body.d.data.d

\* the three failure classes of a request
FailedRequest(op, resp) ==
  \/ resp.transport = "fail"
  \/ resp.transport = "ok" /\ resp.status_code # 200
  \/ resp.transport = "ok" /\ ~WellFormedBody(op, resp.body)

\* C1: whenever a client operation issues a request that fails (transport
\* failure, non-success status or malformed body), the call returns the
\* operation's sentinel: [] for get_coins_list, (None, None, None) for
\* get_coin_history, None for get_global_data.
C1_FailureGivesSentinel ==
  \A i \in 1..Len(calls) :
    (calls[i].fetched /\ FailedRequest(calls[i].op, calls[i].resp))
      => calls[i].result = SentinelOf(calls[i].op)

SuccessfulEntry(op, entry) == entry.stored /\ entry.value # SentinelOf(op)

\* C2: after a successful fetch at time t, a call with the same arguments
\* before t + ttl returns the fetched result and issues no request, and a
\* call after t + ttl issues a request (ttl 600 for get_coins_list, 300 for
\* get_coin_history and get_global_data).
C2_TtlCaching ==
  \A i \in 1..Len(calls) :
    LET c == calls[i] IN
      SuccessfulEntry(c.op, c.before) =>
        /\ c.at < c.before.at + StatedTtl(c.op)
             => (~c.fetched /\ c.result = c.before.value)
        /\ c.at > c.before.at + StatedTtl(c.op) => c.fetched

\* a pass in which one call is answered from an entry fetched earlier and
\* another call refetches an entry that has expired
C2_Witness ==
  \E i, j \in 1..Len(calls) :
    /\ SuccessfulEntry(calls[i].op, calls[i].before)
    /\ calls[i].before.at < calls[i].at
    /\ calls[i].at < calls[i].before.at + StatedTtl(calls[i].op)
    /\ ~calls[i].fetched
    /\ SuccessfulEntry(calls[j].op, calls[j].before)
    /\ calls[j].at > calls[j].before.at + StatedTtl(calls[j].op)
    /\ calls[j].fetched

IsFrame(v) == v.kind = "frame"
DtLess(a, b) == a.sec < b.sec \/ (a.sec = b.sec /\ a.msec < b.msec)
StrictlyIncreasing(frame) ==
  \A i \in 1..(Len(frame.rows) - 1) :
    DtLess(frame.rows[i].timestamp, frame.rows[i + 1].timestamp)

\* C3: every call of get_coin_history returns the failure sentinel or three
\* series of equal, non-zero length with strictly increasing timestamps.
C3_HistoryShape ==
  \A i \in CallsOf("get_coin_history") :
    LET r == calls[i].result IN
      \/ r = <<NoneV, NoneV, NoneV>>
      \/ /\ \A k \in 1..3 : IsFrame(r[k])
         /\ Len(r[1].rows) > 0
         /\ Len(r[1].rows) = Len(r[2].rows)
         /\ Len(r[2].rows) = Len(r[3].rows)
         /\ \A k \in 1..3 : StrictlyIncreasing(r[k])

\* the pass has read the widgets and has run its view to the end
ViewOver == PassOver /\ Shown("sidebar.selectbox")
IsCoinName(name) ==
  \E k \in 1..Len(coins_data.items) : coins_data.items[k].name = name

\* C4: a pass whose selection is the name of a fetched coin calls
\* get_coin_history exactly once, for that coin's id and the day count of the
\* selected window, and does not call get_global_data; a pass whose
\* selection is "Global Overview" calls get_global_data and not
\* get_coin_history.
C4_ViewRequests ==
  ViewOver =>
    /\ IsCoinName(selection) =>
         /\ Cardinality(CallsOf("get_coin_history")) = 1
         /\ \A i \in CallsOf("get_coin_history") :
              /\ \E k \in 1..Len(coins_data.items) :
                   /\ coins_data.items[k].name = selection
                   /\ calls[i].args[1] = coins_data.items[k].id
              /\ calls[i].args[2] =
                   (CASE days_option = "7 Days" -> 7
                      [] days_option = "30 Days" -> 30
                      [] days_option = "90 Days" -> 90)
         /\ CallsOf("get_global_data") = {}
    /\ selection = "Global Overview" =>
         /\ CallsOf("get_global_data") # {}
         /\ CallsOf("get_coin_history") = {}

MetricsShown ==
  Shown("metric.market_cap") /\ Shown("metric.volume") /\ Shown("metric.btc_dominance")
NoMetricShown ==
  ~(Shown("metric.market_cap") \/ Shown("metric.volume") \/ Shown("metric.btc_dominance"))

\* C5: in a Global Overview pass the three metrics are rendered exactly when
\* get_global_data returned a non-null result; when it returned None no
\* metric is rendered and the top-100 table is.
C5_MetricsIffNonNull ==
  (ViewOver /\ CallsOf("get_global_data") # {}) =>
    \A i \in CallsOf("get_global_data") :
      /\ MetricsShown <=> calls[i].result # NoneV
      /\ calls[i].result = NoneV =>
           (NoMetricShown /\ metric_values = <<>> /\ Shown("dataframe.top100"))

\* C6: format_big_number gives "N/A" for None; the value over 1e9 (to 2
\* decimals) with the billion unit from 1e9 on; the value over 1e6 with the
\* million unit from 1e6 up to 1e9; the value itself without a unit below
\* 1e6.
C6_FormatForms ==
  formatted # <<>> =>
    LET f == formatted[1] IN
      IF number.kind = "None" THEN f.text = "N/A"
      ELSE LET n == number.n IN
        /\ f.text # "N/A"
        /\ n >= 1000000000 =>
             /\ f.unit = "Mrd."
             /\ f.hundredths * 10000000 - n \in -5000000..5000000
        /\ (n >= 1000000 /\ n < 1000000000) =>
             /\ f.unit = "Mio."
             /\ f.hundredths * 10000 - n \in -5000..5000
        /\ n < 1000000 =>
             /\ f.unit = ""
             /\ f.hundredths = n * 100

\* a boundary value has been formatted
C6_Witness ==
  /\ formatted # <<>>
  /\ number.kind = "num"
  /\ number.n \in {999999, 1000000, 999999999, 1000000000}

\* C7: the window label maps to 7, 30, 90 for "7 Days", "30 Days",
\* "90 Days" and to 7 for every other label, so the day count is one of 7,
\* 30, 90.
C7_WindowMapping ==
  mapped # <<>> =>
    /\ mapped[1] = (CASE label = "7 Days" -> 7
                      [] label = "30 Days" -> 30
                      [] label = "90 Days" -> 90
                      [] OTHER -> 7)
    /\ mapped[1] \in {7, 30, 90}

C7_Witness == mapped # <<>> /\ label \notin {"7 Days", "30 Days", "90 Days"}

\* C8: a pass in which get_coins_list returned an empty list shows the
\* "could not load data" warning and stops: no other client call, no widget,
\* table, metric or chart (only the sidebar texts, the warning and the
\* connection error of get_coins_list are rendered).
C8_EmptyListHalts ==
  (calls # <<>> /\ calls[1].result = PyList(<<>>)) =>
    /\ pc = "done"
    /\ Len(calls) = 1
    /\ Shown("warning.could_not_load_data")
    /\ \A i \in 1..Len(rendered) :
         rendered[i] \in {"sidebar.title", "sidebar.info",
                          "error.connecting_to_api", "warning.could_not_load_data"}
    /\ metric_values = <<>>

\* the upstream list of zero coins, as opposed to a failed request
C8_Witness ==
  /\ calls # <<>>
  /\ calls[1].fetched
  /\ calls[1].resp.transport = "ok"
  /\ calls[1].resp.status_code = 200
  /\ calls[1].resp.body = PyList(<<>>)
  /\ pc = "done"

ChartTags == {"line_chart.price", "bar_chart.volume", "area_chart.market_cap"}
NoticeTag == "warning.could_not_load_chart_data"

\* C9: a coin pass that found its coin ends, after the identity and the
\* point metrics, with the three charts when get_coin_history returned
\* series, or with the "chart data unavailable" notice when it returned the
\* sentinel: one of the two, and each chart from a present series.
C9_ChartsOrNotice ==
  (ViewOver /\ selection # "Global Overview") =>
    /\ pc = "done"
    /\ Cardinality(CallsOf("get_coin_history")) = 1
    /\ \A i \in CallsOf("get_coin_history") :
         LET r == calls[i].result IN
           /\ (\A t \in ChartTags : Shown(t)) <=> r # <<NoneV, NoneV, NoneV>>
           /\ Shown(NoticeTag) <=> r = <<NoneV, NoneV, NoneV>>
           /\ (\A t \in ChartTags : Shown(t)) \/ (\A t \in ChartTags : ~Shown(t))
           /\ (\A t \in ChartTags : Shown(t)) # Shown(NoticeTag)
           /\ Shown("line_chart.price") => IsFrame(r[1])
           /\ Shown("area_chart.market_cap") => IsFrame(r[2])
           /\ Shown("bar_chart.volume") => IsFrame(r[3])
    /\ \A t \in ChartTags \cup {NoticeTag} :
         Shown(t) => (Shown("metric.high") /\ Position("metric.high") < Position(t))

\* both outcomes: a pass that ends with the notice
C9_Witness ==
  /\ ViewOver
  /\ selection # "Global Overview"
  /\ Shown(NoticeTag)
  /\ \E i \in CallsOf("get_coin_history") : calls[i].fetched

\* C10: after a call failed and returned its sentinel, a call with the same
\* arguments before the entry expires returns the sentinel and issues no
\* request.
C10_FailuresCached ==
  \A i \in 1..Len(calls) :
    LET c == calls[i] IN
      (/\ c.before.stored
       /\ c.before.value = SentinelOf(c.op)
       /\ c.at < c.before.at + StatedTtl(c.op))
        => (~c.fetched /\ c.result = SentinelOf(c.op))

\* a later call answered with a cached sentinel, for a history request
C10_Witness ==
  \E i \in CallsOf("get_coin_history") :
    /\ calls[i].before.stored
    /\ calls[i].before.value = <<NoneV, NoneV, NoneV>>
    /\ calls[i].before.at < calls[i].at
    /\ ~calls[i].fetched

====
